---- MODULE Spec2Model ----
(***************************************************************************)
(* A model of the furniture-store agent: the Backoff Executor              *)
(* (retryWithBackoff), the item_lookup tool (the Hybrid Retriever) and the *)
(* callAgent control loop (agent / tools nodes under a step ceiling).      *)
(*                                                                         *)
(* Every asynchronous function is a process whose position (pc) stops at   *)
(* each await; one action is the code that runs between two awaits.        *)
(***************************************************************************)
EXTENDS Integers, Sequences, FiniteSets, TLC

VARIABLES retry, tool, agent, saved, collection, vectorHits, textHits, failing

vars == <<retry, tool, agent, saved, collection, vectorHits, textHits, failing>>

storeVars == <<collection, vectorHits, textHits>>

(***************************************************************************)
(* Bounds of the model.                                                    *)
(***************************************************************************)
\* the largest maxRetries the Backoff Executor is entered with
MaxRetriesBound == 6

\* concurrent invocations of callAgent the model has room for
Procs == {1, 2}

(***************************************************************************)
(* Errors: the thrown object's status and message.                         *)
(***************************************************************************)
\* error.status of an error that carries none (undefined)
NoStatus == 0

Err(status, message) == [status |-> status, message |-> message]

\* what the language model's client can throw
ModelErrors ==
  { Err(429, "Too Many Requests"),
    Err(401, "API key not valid"),
    Err(500, "Internal error"),
    Err(NoStatus, "fetch failed") }

MaxRetriesError == Err(NoStatus, "Max retries exceeded")

(***************************************************************************)
(* Messages.                                                               *)
(***************************************************************************)
HumanMessage(content) == [role |-> "human", content |-> content]

ToolCall(id, input) == [id |-> id, name |-> "item_lookup", input |-> input]

AIMessage(content, calls) ==
  [role |-> "ai", content |-> content, tool_calls |-> calls]

ToolMessage(id, content) ==
  [role |-> "tool", tool_call_id |-> id, content |-> content]

(***************************************************************************)
(* retryWithBackoff                                                        *)
(***************************************************************************)
DefaultMaxRetries == 3

\* one call of retryWithBackoff: calls counts the invocations of fn, log lists
\* how each one settled, waits the delays slept
RetryIdle ==
  [pc |-> "idle", maxRetries |-> 0, attempt |-> 0, calls |-> 0,
   log |-> <<>>, waits |-> <<>>, out |-> [tag |-> "none"]]

Min(a, b) == IF a <= b THEN a ELSE b

RECURSIVE Pow2(_)
Pow2(n) == IF n <= 0 THEN 1 ELSE 2 * Pow2(n - 1)

\* a fixed delay: the backoff that forgets to grow
DelayFlat(attempt) == 2000

\* const delay = Math.min(1000 * Math.pow(2, attempt), 30000)
Delay(attempt) == Min(1000 * Pow2(attempt), 30000)

\* retry on every rate limit, the attempts left or not
ShouldRetryAlways(error, attempt, maxRetries) == error.status = 429

\* retry on every error while attempts remain
ShouldRetryAnyError(error, attempt, maxRetries) == attempt < maxRetries

\* if (error.status === 429 && attempt < maxRetries)
ShouldRetry(error, attempt, maxRetries) ==
  error.status = 429 /\ attempt < maxRetries

\* the call retryWithBackoff(fn, maxRetries): attempt = 1, before the first test
RetryEntered(maxRetries) ==
  [RetryIdle EXCEPT !.pc = "for", !.maxRetries = maxRetries, !.attempt = 1]

\* the harness of the executor alone: any maxRetries
RetryEnter(p) ==
  /\ retry[p].pc = "idle"
  /\ agent[p].pc = "idle"
  /\ \E m \in 0..MaxRetriesBound : retry' = [retry EXCEPT ![p] = RetryEntered(m)]
  /\ UNCHANGED <<tool, agent, saved, storeVars, failing>>

\* the loop that tests after its body: the operation called at least once
ForTestAtLeastOnce(p) ==
  /\ retry[p].pc = "for"
  /\ retry' = [retry EXCEPT ![p] =
       IF @.attempt <= @.maxRetries \/ @.calls = 0
         THEN [@ EXCEPT !.pc = "await_fn", !.calls = @ + 1]
         ELSE [@ EXCEPT !.pc = "thrown",
                        !.out = [tag |-> "error", error |-> MaxRetriesError]]]
  /\ UNCHANGED <<tool, agent, saved, storeVars, failing>>

\* for (...; attempt <= maxRetries; ...) { try { return await fn() ...
\* and, the loop left, throw new Error("Max retries exceeded")
ForTest(p) ==
  /\ retry[p].pc = "for"
  /\ retry' = [retry EXCEPT ![p] =
       IF @.attempt <= @.maxRetries
         THEN [@ EXCEPT !.pc = "await_fn", !.calls = @ + 1]
         ELSE [@ EXCEPT !.pc = "thrown",
                        !.out = [tag |-> "error", error |-> MaxRetriesError]]]
  /\ UNCHANGED <<tool, agent, saved, storeVars, failing>>

\* the executor that returns the response once per call it made
ResolvedPerAttempt(r, value) ==
  LET repeated == [messages |-> [i \in 1..r.calls |-> value.messages[1]]] IN
  [r EXCEPT !.pc = "returned",
            !.log = Append(@, [tag |-> "value", value |-> repeated]),
            !.out = [tag |-> "value", value |-> repeated]]

\* return await fn(), fn fulfilled with value
Resolved(r, value) ==
  [r EXCEPT !.pc = "returned",
            !.log = Append(@, [tag |-> "value", value |-> value]),
            !.out = [tag |-> "value", value |-> value]]

\* the catch that turns the last rate limit into "Max retries exceeded"
RejectedMaxRetries(r, error) ==
  IF ShouldRetry(error, r.attempt, r.maxRetries)
    THEN [r EXCEPT !.pc = "await_timer",
                   !.log = Append(@, [tag |-> "error", error |-> error]),
                   !.waits = Append(@, Delay(r.attempt))]
    ELSE [r EXCEPT !.pc = "thrown",
                   !.log = Append(@, [tag |-> "error", error |-> error]),
                   !.out = [tag |-> "error",
                            error |-> IF error.status = 429 THEN MaxRetriesError
                                      ELSE error]]

\* catch (error): wait and continue, or throw error
Rejected(r, error) ==
  IF ShouldRetry(error, r.attempt, r.maxRetries)
    THEN [r EXCEPT !.pc = "await_timer",
                   !.log = Append(@, [tag |-> "error", error |-> error]),
                   !.waits = Append(@, Delay(r.attempt))]
    ELSE [r EXCEPT !.pc = "thrown",
                   !.log = Append(@, [tag |-> "error", error |-> error]),
                   !.out = [tag |-> "error", error |-> error]]

\* setTimeout(resolve, delay) fires; continue runs attempt++
TimerFires(p) ==
  /\ retry[p].pc = "await_timer"
  /\ retry' = [retry EXCEPT ![p] = [@ EXCEPT !.pc = "for", !.attempt = @ + 1]]
  /\ UNCHANGED <<tool, agent, saved, storeVars, failing>>

(***************************************************************************)
(* JavaScript values, as far as the tool's input parsing reads them.       *)
(***************************************************************************)
JSUndefined == [t |-> "undefined"]

JSNull == [t |-> "null"]

JSNum(v) == [t |-> "number", v |-> v]

JSStr(v) == [t |-> "string", v |-> v]

JSObj(fields) == [t |-> "object", fields |-> fields]

\* ToBoolean
Truthy(v) ==
  CASE v.t = "undefined" -> FALSE
    [] v.t = "null" -> FALSE
    [] v.t = "number" -> v.v # 0
    [] v.t = "string" -> v.v # ""
    [] OTHER -> TRUE

\* a || b
OrElse(a, b) == IF Truthy(a) THEN a ELSE b

\* v.name, for a v that is neither null nor undefined
Get(v, name) ==
  IF v.t = "object" /\ name \in DOMAIN v.fields THEN v.fields[name]
  ELSE JSUndefined

\* the tool input strings of the model
ToolInputs ==
  { "sofa",
    "{\"query\":\"sofa\"}",
    "{\"query\":\"sofa\",\"n\":1}",
    "{\"query\":\"sofa\",\"n\":2}",
    "{\"query\":\"sofa\",\"n\":0}",
    "{\"query\":\"sofa\",\"n\":-1}",
    "{\"n\":1}",
    "{\"query\":\"\"}",
    "null",
    "42" }

Parsed(value) == [ok |-> TRUE, value |-> value]

\* JSON.parse on the input strings of the model; SyntaxError is ok = FALSE
JSONparse(s) ==
  CASE s = "{\"query\":\"sofa\"}" -> Parsed(JSObj([query |-> JSStr("sofa")]))
    [] s = "{\"query\":\"sofa\",\"n\":1}" ->
         Parsed(JSObj([query |-> JSStr("sofa"), n |-> JSNum(1)]))
    [] s = "{\"query\":\"sofa\",\"n\":2}" ->
         Parsed(JSObj([query |-> JSStr("sofa"), n |-> JSNum(2)]))
    [] s = "{\"query\":\"sofa\",\"n\":0}" ->
         Parsed(JSObj([query |-> JSStr("sofa"), n |-> JSNum(0)]))
    [] s = "{\"query\":\"sofa\",\"n\":-1}" ->
         Parsed(JSObj([query |-> JSStr("sofa"), n |-> JSNum(-1)]))
    [] s = "{\"n\":1}" -> Parsed(JSObj([n |-> JSNum(1)]))
    [] s = "{\"query\":\"\"}" -> Parsed(JSObj([query |-> JSStr("")]))
    [] s = "null" -> Parsed(JSNull)
    [] s = "42" -> Parsed(JSNum(42))
    [] OTHER -> [ok |-> FALSE]

\* the parsing that defaults only what is missing (?? for ||)
ParseInputNullish(input) ==
  LET r == JSONparse(input)
      query == Get(r.value, "query")
      n == Get(r.value, "n")
  IN IF ~r.ok \/ r.value.t \in {"null", "undefined"}
       THEN [query |-> input, n |-> 10]
       ELSE [query |-> IF query.t = "undefined" THEN input ELSE query.v,
             n |-> IF n.t = "undefined" THEN 10 ELSE n.v]

\* let query; let n = 10; try { parsed = JSON.parse(input);
\*   query = parsed.query || input; n = parsed.n || 10 } catch { query = input }
\* (parsed.query on null throws a TypeError, caught like the SyntaxError)
ParseInput(input) ==
  LET r == JSONparse(input) IN
  IF ~r.ok \/ r.value.t \in {"null", "undefined"}
    THEN [query |-> input, n |-> 10]
    ELSE [query |-> OrElse(Get(r.value, "query"), JSStr(input)).v,
          n |-> OrElse(Get(r.value, "n"), JSNum(10)).v]

(***************************************************************************)
(* The document store: the items collection, and what its two searches     *)
(* find for the query (the data does not change while the agent runs).     *)
(***************************************************************************)
\* documents the collection may hold
MaxItems == 2

Items == 1..MaxItems

\* the operations of the store and of its vector index
StoreOps == {"countDocuments", "similaritySearchWithScore", "find"}

\* the sequences without repetition over the set S
Perms(S) ==
  UNION {{s \in [1..k -> S] : \A i, j \in 1..k : i # j => s[i] # s[j]} :
           k \in 0..Cardinality(S)}

\* the first k elements of s
Take(s, k) == SubSeq(s, 1, Min(k, Len(s)))

\* the documents of S in the collection's natural order
RECURSIVE Natural(_)
Natural(S) ==
  IF S = {} THEN <<>>
  ELSE LET m == CHOOSE x \in S : \A y \in S : x <= y
       IN <<m>> \o Natural(S \ {m})

\* a store: its documents, the ranked [doc, score] pairs the vector index
\* gives for the query, the documents the $regex filter matches, and the
\* operation that throws in this run, if one does
InitStore(items) ==
  /\ collection \in SUBSET items
  /\ vectorHits \in
       {[i \in DOMAIN s |-> <<s[i], 90>>] : s \in Perms(collection)}
  /\ textHits \in {Natural(S) : S \in SUBSET collection}
  /\ failing \in {{}} \cup {{op} : op \in StoreOps}

StoreError == Err(NoStatus, "connection closed")

\* what the vector index answers to a limit that is not 1 or more
LimitError == Err(NoStatus, "limit must be a positive integer")

(***************************************************************************)
(* itemLookupTool.func: one running call of the tool.  calls lists the     *)
(* store operations the call has invoked, in order.                        *)
(***************************************************************************)
\* if (totalCount === 0) return JSON.stringify({error, message, count: 0})
EmptyInventoryEnvelope ==
  [error |-> "No items found in inventory",
   message |-> "The inventory database appears to be empty",
   count |-> 0]

\* the envelope that counts the default n, not what was found
VectorEnvelopeDefaultCount(result, query) ==
  [results |-> result, searchType |-> "vector", query |-> query, count |-> 10]

\* return JSON.stringify({results: result, searchType: "vector", query, count})
VectorEnvelope(result, query) ==
  [results |-> result, searchType |-> "vector", query |-> query,
   count |-> Len(result)]

\* the fallback envelope that keeps the vector label
TextEnvelopeMislabelled(textResults, query) ==
  [results |-> textResults, searchType |-> "vector", query |-> query,
   count |-> Len(textResults)]

\* return JSON.stringify({results: textResults, searchType: "text", query, count})
TextEnvelope(textResults, query) ==
  [results |-> textResults, searchType |-> "text", query |-> query,
   count |-> Len(textResults)]

\* catch (error) { return JSON.stringify({error, details: error.message, query: input}) }
ErrorEnvelope(error, input) ==
  [error |-> "Failed to search inventory", details |-> error.message,
   query |-> input]

\* func(input) up to its first await: the input parsed, countDocuments() called
ToolEntered(input) ==
  [pc |-> "await_count", input |-> input,
   query |-> ParseInput(input).query, n |-> ParseInput(input).n,
   result |-> <<>>, textResults |-> <<>>,
   calls |-> <<"countDocuments">>, threw |-> FALSE, out |-> [tag |-> "none"]]

ToolReturns(t, envelope) ==
  [t EXCEPT !.pc = "done", !.out = [tag |-> "value", value |-> envelope]]

\* the tool without its outer catch: the exception leaves func
ToolRethrows(t, error) ==
  [t EXCEPT !.pc = "done", !.threw = TRUE,
            !.out = [tag |-> "error", error |-> error]]

\* the catch that answers a failed vector search with the text search
ToolCatchesThenText(t, error) ==
  IF t.pc = "await_vector"
    THEN [t EXCEPT !.pc = "await_text", !.calls = Append(@, "find")]
    ELSE [t EXCEPT !.pc = "done", !.threw = TRUE,
                   !.out = [tag |-> "value",
                            value |-> ErrorEnvelope(error, t.input)]]

\* an exception on the way: the outer catch returns the error envelope
ToolCatches(t, error) ==
  [ToolReturns(t, ErrorEnvelope(error, t.input)) EXCEPT !.threw = TRUE]

\* the empty collection that is searched all the same
AfterCountAlwaysSearch(t, totalCount) ==
  [t EXCEPT !.pc = "await_vector",
            !.calls = Append(@, "similaritySearchWithScore")]

\* totalCount = await collection.countDocuments(); the empty-inventory return,
\* or vectorStore.similaritySearchWithScore(query, n) called
AfterCount(t, totalCount) ==
  IF totalCount = 0 THEN ToolReturns(t, EmptyInventoryEnvelope)
  ELSE [t EXCEPT !.pc = "await_vector",
                 !.calls = Append(@, "similaritySearchWithScore")]

\* result = await ...similaritySearchWithScore(query, n): collection.find(...)
\* .limit(n).toArray() called when it is empty, else the vector envelope
AfterVector(t, result) ==
  IF Len(result) = 0
    THEN [t EXCEPT !.pc = "await_text", !.result = result,
                   !.calls = Append(@, "find")]
    ELSE ToolReturns([t EXCEPT !.result = result],
                     VectorEnvelope(result, t.query))

\* textResults = await collection.find(...).limit(n).toArray()
AfterText(t, textResults) ==
  ToolReturns([t EXCEPT !.textResults = textResults],
              TextEnvelope(textResults, t.query))

\* the i-th running call of invocation p moves on to t
SetTool(p, i, t) == tool' = [tool EXCEPT ![p][i] = t]

\* the store operation the call is waiting for
Awaited(pc) ==
  CASE pc = "await_count" -> "countDocuments"
    [] pc = "await_vector" -> "similaritySearchWithScore"
    [] pc = "await_text" -> "find"
    [] OTHER -> "none"

\* the awaited call of t throws: the operation fails in this run, or it is
\* the vector search asked for fewer than 1 result
Fails(t) ==
  \/ Awaited(t.pc) \in failing
  \/ t.pc = "await_vector" /\ t.n < 1

\* the awaited call throws
Throws(p, i, pc) ==
  /\ i \in DOMAIN tool[p]
  /\ tool[p][i].pc = pc
  /\ Fails(tool[p][i])
  /\ SetTool(p, i, ToolCatches(tool[p][i], IF Awaited(pc) \in failing
                                             THEN StoreError ELSE LimitError))
  /\ UNCHANGED <<retry, agent, saved, storeVars, failing>>

\* the awaited call returns; next is the call of func with its value
Returns(p, i, pc, next) ==
  /\ i \in DOMAIN tool[p]
  /\ tool[p][i].pc = pc
  /\ ~Fails(tool[p][i])
  /\ SetTool(p, i, next)
  /\ UNCHANGED <<retry, agent, saved, storeVars, failing>>

CountThrows(p, i) == Throws(p, i, "await_count")

VectorThrows(p, i) == Throws(p, i, "await_vector")

TextThrows(p, i) == Throws(p, i, "await_text")

CountReturns(p, i) ==
  Returns(p, i, "await_count", AfterCount(tool[p][i], Cardinality(collection)))

VectorReturns(p, i) ==
  Returns(p, i, "await_vector",
          AfterVector(tool[p][i], Take(vectorHits, tool[p][i].n)))

TextReturns(p, i) ==
  Returns(p, i, "await_text",
          AfterText(tool[p][i], Take(textHits, tool[p][i].n)))

\* the harness of the tool alone: one call with any input
ToolEnter(p) ==
  /\ tool[p] = <<>>
  /\ agent[p].pc = "idle"
  /\ retry[p].pc = "idle"
  /\ \E input \in ToolInputs : tool' = [tool EXCEPT ![p] = <<ToolEntered(input)>>]
  /\ UNCHANGED <<retry, agent, saved, storeVars, failing>>

(***************************************************************************)
(* callAgent: the graph agent -> (tools -> agent)* run by app.invoke under *)
(* recursionLimit, and the catch that classifies what aborts it.           *)
(***************************************************************************)
Threads == {"t1", "t2"}

Queries == {"show me a cheap blue sofa", "do you have oak tables"}

Answers == {"We have a blue sofa."}

\* the tool input the language model asks for in the control loop
LoopInputs == {"sofa"}

\* tool calls one response of the language model may request
MaxToolCalls == 1

\* documents of the collection in the runs of the control loop
LoopItems == {1}

\* the step ceiling of an invoke that passes none
recursionLimitDefault == 25

\* app.invoke(..., { recursionLimit: 15, ... })
recursionLimit == 15

\* the responses of the language model with at most k tool calls, their
\* inputs among inputs
ModelResponsesOver(k, inputs) ==
  {AIMessage(a, <<>>) : a \in Answers} \cup
  {AIMessage("", [i \in 1..m |-> ToolCall(i, input[i])]) :
     m \in 1..k, input \in [1..k -> inputs]}

ModelResponsesUpTo(k) == ModelResponsesOver(k, LoopInputs)

\* what model.invoke(formattedPrompt) may answer
ModelResponses == ModelResponsesUpTo(MaxToolCalls)

\* the serialised envelope, the content of a tool message
JSONstringify(v) == [json |-> v]

\* the reducer that keeps the update only
reducerReplace(x, y) == y

\* reducer: (x, y) => x.concat(y)
reducer(x, y) == x \o y

Last(s) == s[Len(s)]

\* lastMessage.tool_calls?.length
ToolCallsLength(m) ==
  IF "tool_calls" \in DOMAIN m THEN Len(m.tool_calls) ELSE 0

\* the conditional edge that always ends the graph
shouldContinueEnd(messages) == "_end_"

\* function shouldContinue(state)
shouldContinue(messages) ==
  IF ToolCallsLength(Last(messages)) # 0 THEN "tools" ELSE "_end_"

GraphRecursionError ==
  Err(NoStatus, "Recursion limit of 15 reached without hitting a stop condition.")

RateLimitMessage ==
  "Service temporarily unavailable due to rate limits. Please try again in a minute."

AuthMessage == "Authentication failed. Please check your API configuration."

\* the catch that knows the rate limit only
ClassifyNoAuth(error) ==
  IF error.status = 429 THEN Err(NoStatus, RateLimitMessage)
  ELSE Err(NoStatus, "Agent failed: " \o error.message)

\* catch (error): throw new Error(...) by error.status
Classify(error) ==
  IF error.status = 429 THEN Err(NoStatus, RateLimitMessage)
  ELSE IF error.status = 401 THEN Err(NoStatus, AuthMessage)
  ELSE Err(NoStatus, "Agent failed: " \o error.message)

AgentIdle ==
  [pc |-> "idle", query |-> "", thread_id |-> "", messages |-> <<>>,
   step |-> 0, caught |-> [tag |-> "none"],
   out |-> [tag |-> "none"]]

\* the catch block of callAgent, entered with error
Caught(a, error) ==
  [a EXCEPT !.pc = "thrown", !.caught = [tag |-> "error", error |-> error],
            !.out = [tag |-> "error", error |-> Classify(error)]]

\* callAgent(client, query, thread_id) up to the first node: the thread's
\* checkpoint loaded, the human message merged into it and saved
CallAgent(p) ==
  /\ agent[p].pc = "idle"
  /\ retry[p].pc = "idle"
  /\ tool[p] = <<>>
  /\ \E query \in Queries, thread_id \in Threads :
       /\ \A q \in Procs \ {p} :
            agent[q].pc \in {"idle", "returned", "thrown"}
              \/ agent[q].thread_id # thread_id
       /\ LET messages == reducer(saved[thread_id], <<HumanMessage(query)>>) IN
          /\ agent' = [agent EXCEPT ![p] =
               [AgentIdle EXCEPT !.pc = "to_agent", !.query = query,
                                 !.thread_id = thread_id, !.messages = messages]]
          /\ saved' = [saved EXCEPT ![thread_id] = messages]
  /\ UNCHANGED <<retry, tool, storeVars, failing>>

\* the agent node starts: callModel(state) calls retryWithBackoff(fn)
EnterAgent(p) ==
  /\ agent[p].pc = "to_agent"
  /\ agent[p].step < recursionLimit
  /\ agent' = [agent EXCEPT ![p] = [@ EXCEPT !.pc = "agent", !.step = @ + 1]]
  /\ retry' = [retry EXCEPT ![p] = RetryEntered(DefaultMaxRetries)]
  /\ UNCHANGED <<tool, saved, storeVars, failing>>

\* await model.invoke(formattedPrompt) fulfils with one of responses; fn
\* returns { messages: [result] }
ModelResolvesWith(p, responses) ==
  /\ retry[p].pc = "await_fn"
  /\ \E result \in responses :
       retry' = [retry EXCEPT ![p] = Resolved(@, [messages |-> <<result>>])]
  /\ UNCHANGED <<tool, agent, saved, storeVars, failing>>

ModelResolves(p) == ModelResolvesWith(p, ModelResponses)

\* await model.invoke(formattedPrompt) rejects
ModelRejects(p) ==
  /\ retry[p].pc = "await_fn"
  /\ \E error \in ModelErrors :
       retry' = [retry EXCEPT ![p] = Rejected(@, error)]
  /\ UNCHANGED <<tool, agent, saved, storeVars, failing>>

\* the agent node whose checkpoint is not keyed by the thread
AgentReturnsShared(p) ==
  /\ agent[p].pc = "agent"
  /\ retry[p].pc = "returned"
  /\ LET messages == reducer(agent[p].messages, retry[p].out.value.messages) IN
     /\ agent' = [agent EXCEPT ![p] =
          [@ EXCEPT !.messages = messages,
                    !.pc = IF shouldContinue(messages) = "tools"
                             THEN "to_tools" ELSE "to_end"]]
     /\ saved' = [t \in Threads |-> messages]
  /\ retry' = [retry EXCEPT ![p] = RetryIdle]
  /\ UNCHANGED <<tool, storeVars, failing>>

\* the agent node ends: callModel's delta merged and saved, then the
\* conditional edge shouldContinue
AgentReturns(p) ==
  /\ agent[p].pc = "agent"
  /\ retry[p].pc = "returned"
  /\ LET messages == reducer(agent[p].messages, retry[p].out.value.messages) IN
     /\ agent' = [agent EXCEPT ![p] =
          [@ EXCEPT !.messages = messages,
                    !.pc = IF shouldContinue(messages) = "tools"
                             THEN "to_tools" ELSE "to_end"]]
     /\ saved' = [saved EXCEPT ![agent[p].thread_id] = messages]
  /\ retry' = [retry EXCEPT ![p] = RetryIdle]
  /\ UNCHANGED <<tool, storeVars, failing>>

\* callModel rejects: app.invoke rejects with the same error, into the catch
AgentThrows(p) ==
  /\ agent[p].pc = "agent"
  /\ retry[p].pc = "thrown"
  /\ agent' = [agent EXCEPT ![p] = Caught(@, retry[p].out.error)]
  /\ UNCHANGED <<retry, tool, saved, storeVars, failing>>

\* the tools node starts: every tool call of the last message is invoked
EnterTools(p) ==
  /\ agent[p].pc = "to_tools"
  /\ agent[p].step < recursionLimit
  /\ agent' = [agent EXCEPT ![p] = [@ EXCEPT !.pc = "tools", !.step = @ + 1]]
  /\ LET calls == Last(agent[p].messages).tool_calls IN
     tool' = [tool EXCEPT ![p] =
                [i \in 1..Len(calls) |-> ToolEntered(calls[i].input)]]
  /\ UNCHANGED <<retry, saved, storeVars, failing>>

\* the tools node that ends with the first finished call
ToolsReturnEarly(p) ==
  /\ agent[p].pc = "tools"
  /\ \E i \in DOMAIN tool[p] : tool[p][i].pc = "done"
  /\ LET calls == Last(agent[p].messages).tool_calls
         done == SelectSeq([i \in DOMAIN tool[p] |-> i],
                           LAMBDA i : tool[p][i].pc = "done")
         outputs == [k \in DOMAIN done |->
                       ToolMessage(calls[done[k]].id,
                                   JSONstringify(tool[p][done[k]].out.value))]
         messages == reducer(agent[p].messages, outputs)
     IN /\ agent' = [agent EXCEPT ![p] =
             [@ EXCEPT !.messages = messages, !.pc = "to_agent"]]
        /\ saved' = [saved EXCEPT ![agent[p].thread_id] = messages]
  /\ tool' = [tool EXCEPT ![p] = <<>>]
  /\ UNCHANGED <<retry, storeVars, failing>>

\* the tools node ends, every call done: one tool message per call, in the
\* order of the calls, merged and saved; the edge tools -> agent
ToolsReturn(p) ==
  /\ agent[p].pc = "tools"
  /\ \A i \in DOMAIN tool[p] : tool[p][i].pc = "done"
  /\ LET calls == Last(agent[p].messages).tool_calls
         outputs == [i \in DOMAIN tool[p] |->
                       ToolMessage(calls[i].id, JSONstringify(tool[p][i].out.value))]
         messages == reducer(agent[p].messages, outputs)
     IN /\ agent' = [agent EXCEPT ![p] =
             [@ EXCEPT !.messages = messages, !.pc = "to_agent"]]
        /\ saved' = [saved EXCEPT ![agent[p].thread_id] = messages]
  /\ tool' = [tool EXCEPT ![p] = <<>>]
  /\ UNCHANGED <<retry, storeVars, failing>>

\* the ceiling that stops the graph without ending the invocation
OutOfStepsHangs(p) ==
  /\ agent[p].pc \in {"to_agent", "to_tools"}
  /\ agent[p].step >= recursionLimit
  /\ UNCHANGED vars

\* a node is due with recursionLimit steps taken: GraphRecursionError
OutOfSteps(p) ==
  /\ agent[p].pc \in {"to_agent", "to_tools"}
  /\ agent[p].step >= recursionLimit
  /\ agent' = [agent EXCEPT ![p] = Caught(@, GraphRecursionError)]
  /\ UNCHANGED <<retry, tool, saved, storeVars, failing>>

\* the graph is at its end: response = the last message's content, returned
GraphEnds(p) ==
  /\ agent[p].pc = "to_end"
  /\ agent' = [agent EXCEPT ![p] =
       [@ EXCEPT !.pc = "returned",
                 !.out = [tag |-> "value",
                          value |-> Last(agent[p].messages).content]]]
  /\ UNCHANGED <<retry, tool, saved, storeVars, failing>>

\* the graph ends on its last allowed step: whether the library then finds the
\* end or the ceiling first is not fixed by this repository
EndOutOfSteps(p) ==
  /\ agent[p].pc = "to_end"
  /\ agent[p].step >= recursionLimit
  /\ agent' = [agent EXCEPT ![p] = Caught(@, GraphRecursionError)]
  /\ UNCHANGED <<retry, tool, saved, storeVars, failing>>

(***************************************************************************)
(* Specifications.                                                         *)
(***************************************************************************)
\* the history a thread may hold before the run
PriorHistories ==
  { <<>>,
    <<HumanMessage("hello"), AIMessage("Hello! How can I help?", <<>>)>> }

InitProcs ==
  /\ retry = [p \in Procs |-> RetryIdle]
  /\ tool = [p \in Procs |-> <<>>]
  /\ agent = [p \in Procs |-> AgentIdle]

\* the Backoff Executor alone, over the language model's outcomes
InitRetry ==
  /\ InitProcs
  /\ saved = [t \in Threads |-> <<>>]
  /\ collection = {} /\ vectorHits = <<>> /\ textHits = <<>> /\ failing = {}

NextRetry ==
  \/ RetryEnter(1)
  \/ ForTest(1)
  \/ ModelResolves(1)
  \/ ModelRejects(1)
  \/ TimerFires(1)

SpecRetry == InitRetry /\ [][NextRetry]_vars

\* the tool alone, over the stores and the inputs
InitTool ==
  /\ InitProcs
  /\ saved = [t \in Threads |-> <<>>]
  /\ InitStore(Items)

NextTool ==
  \/ ToolEnter(1)
  \/ CountReturns(1, 1)
  \/ CountThrows(1, 1)
  \/ VectorReturns(1, 1)
  \/ VectorThrows(1, 1)
  \/ TextReturns(1, 1)
  \/ TextThrows(1, 1)

SpecTool == InitTool /\ [][NextTool]_vars

\* one invocation of callAgent
Init ==
  /\ InitProcs
  /\ \E h \in PriorHistories : saved = [t \in Threads |-> IF t = "t1" THEN h ELSE <<>>]
  /\ InitStore(LoopItems)

ToolStep(p) ==
  \E i \in DOMAIN tool[p] :
    \/ CountReturns(p, i)
    \/ CountThrows(p, i)
    \/ VectorReturns(p, i)
    \/ VectorThrows(p, i)
    \/ TextReturns(p, i)
    \/ TextThrows(p, i)

Next ==
  \/ CallAgent(1)
  \/ EnterAgent(1)
  \/ ForTest(1)
  \/ ModelResolves(1)
  \/ ModelRejects(1)
  \/ TimerFires(1)
  \/ AgentReturns(1)
  \/ AgentThrows(1)
  \/ EnterTools(1)
  \/ ToolStep(1)
  \/ ToolsReturn(1)
  \/ OutOfSteps(1)
  \/ GraphEnds(1)
  \/ EndOutOfSteps(1)

Spec == Init /\ [][Next]_vars

\* what an invocation does once it is called: every pending model call, tool
\* call, backoff wait and graph step
Progress ==
  \/ EnterAgent(1)
  \/ ForTest(1)
  \/ ModelResolves(1)
  \/ ModelRejects(1)
  \/ TimerFires(1)
  \/ AgentReturns(1)
  \/ AgentThrows(1)
  \/ EnterTools(1)
  \/ ToolStep(1)
  \/ ToolsReturn(1)
  \/ OutOfSteps(1)
  \/ GraphEnds(1)
  \/ EndOutOfSteps(1)

\* one invocation whose awaited calls and timers all complete in the end
SpecFair == Spec /\ WF_vars(Progress)

\* tool rounds the language model asks for in the runs of several invocations
MaxRounds == 1

\* the language model answers; it asks for tools in the first limit rounds only
ModelResolvesWithin(p, limit) ==
  ModelResolvesWith(p, IF agent[p].step < 2 * limit
                         THEN ModelResponses ELSE ModelResponsesUpTo(0))

\* the steps of invocation p short of the step ceiling
ProcStep(p) ==
  \/ CallAgent(p)
  \/ EnterAgent(p)
  \/ ForTest(p)
  \/ ModelResolvesWithin(p, MaxRounds)
  \/ ModelRejects(p)
  \/ TimerFires(p)
  \/ AgentReturns(p)
  \/ AgentThrows(p)
  \/ EnterTools(p)
  \/ ToolStep(p)
  \/ ToolsReturn(p)
  \/ GraphEnds(p)

\* tool calls one response asks for in the runs of the tools node
MaxParallelCalls == 2

\* the tool inputs of these calls
CallInputs == {"sofa", "table"}

\* the language model answers, with up to MaxParallelCalls tool calls
ModelResolvesCalls(p) ==
  ModelResolvesWith(p, ModelResponsesOver(IF agent[p].step < 2 * MaxRounds
                                            THEN MaxParallelCalls ELSE 0,
                                          CallInputs))

\* one invocation whose tools node runs several calls, interleaved in any way
NextCalls ==
  \/ CallAgent(1)
  \/ EnterAgent(1)
  \/ ForTest(1)
  \/ ModelResolvesCalls(1)
  \/ ModelRejects(1)
  \/ TimerFires(1)
  \/ AgentReturns(1)
  \/ AgentThrows(1)
  \/ EnterTools(1)
  \/ ToolStep(1)
  \/ ToolsReturn(1)
  \/ GraphEnds(1)

SpecCalls == Init /\ [][NextCalls]_vars

\* two invocations of callAgent on one MongoDBSaver: one after the other on
\* the same thread, interleaved in any way on different threads
InitThreads ==
  /\ InitProcs
  /\ saved = [t \in Threads |-> <<>>]
  /\ InitStore(LoopItems)
  /\ collection = LoopItems /\ Len(vectorHits) = 1 /\ Len(textHits) = 1
  /\ failing \subseteq {"similaritySearchWithScore"}

NextThreads == \E p \in Procs : ProcStep(p)

SpecThreads == InitThreads /\ [][NextThreads]_vars

(***************************************************************************)
(* The direct-answer variant: callAgent of src/server/agent.ts, one        *)
(* similarity search and one call of the language model inside one try.    *)
(* Its invocation is held in agent[p]; calls lists what it has invoked.    *)
(***************************************************************************)
\* documents the collection may hold in the runs of the direct variant
MaxDirectItems == 4

DirectItems == 1..MaxDirectItems

\* vectorStore.similaritySearch(message, 3)
DirectK == 3

Apology ==
  "I'm sorry, I'm having trouble processing your request right now. Please try again later."

\* result.metadata.prices is undefined: product.price.sale_price throws
PromptError == Err(NoStatus, "Cannot read properties of undefined")

\* callAgent(client, message, threadId) up to its first await
DirectEntered(message, threadId) ==
  [pc |-> "await_search", message |-> message, threadId |-> threadId,
   k |-> DirectK, searchResults |-> <<>>,
   calls |-> <<"similaritySearch">>,
   caught |-> [tag |-> "none"], out |-> [tag |-> "none"]]

\* the variant without its catch: the error leaves callAgent
DirectRethrows(a, error) ==
  [a EXCEPT !.pc = "thrown", !.caught = [tag |-> "error", error |-> error],
            !.out = [tag |-> "error", error |-> error]]

\* catch (error) { console.error(...); return "I'm sorry, ..." }
DirectCaught(a, error) ==
  [a EXCEPT !.pc = "returned", !.caught = [tag |-> "error", error |-> error],
            !.out = [tag |-> "value", value |-> Apology]]

\* the harness: one call of the direct variant
DirectCallAgent(p) ==
  /\ agent[p].pc = "idle"
  /\ \E message \in Queries, threadId \in Threads :
       agent' = [agent EXCEPT ![p] = DirectEntered(message, threadId)]
  /\ UNCHANGED <<retry, tool, saved, storeVars, failing>>

\* await vectorStore.similaritySearch(message, 3) rejects
SearchThrows(p) ==
  /\ agent[p].pc = "await_search"
  /\ "similaritySearch" \in failing
  /\ agent' = [agent EXCEPT ![p] = DirectCaught(@, StoreError)]
  /\ UNCHANGED <<retry, tool, saved, storeVars, failing>>

\* await vectorStore.similaritySearch(message, 3) fulfils: the prompt is built
\* from the documents (a document without prices makes that throw) and
\* llm.invoke(systemPrompt) is called
SearchReturns(p) ==
  /\ agent[p].pc = "await_search"
  /\ "similaritySearch" \notin failing
  /\ \E wellFormed \in BOOLEAN :
       LET searchResults == [i \in 1..Min(agent[p].k, Len(vectorHits)) |->
                              vectorHits[i][1]]
           found == [agent[p] EXCEPT !.searchResults = searchResults]
       IN agent' = [agent EXCEPT ![p] =
            IF searchResults # <<>> /\ ~wellFormed
              THEN DirectCaught(found, PromptError)
              ELSE [found EXCEPT !.pc = "await_llm",
                                 !.calls = Append(@, "llm.invoke")]]
  /\ UNCHANGED <<retry, tool, saved, storeVars, failing>>

\* await llm.invoke(systemPrompt) fulfils: return response.content
LlmResolves(p) ==
  /\ agent[p].pc = "await_llm"
  /\ \E content \in Answers :
       agent' = [agent EXCEPT ![p] =
         [@ EXCEPT !.pc = "returned",
                   !.out = [tag |-> "value", value |-> content]]]
  /\ UNCHANGED <<retry, tool, saved, storeVars, failing>>

\* await llm.invoke(systemPrompt) rejects
LlmRejects(p) ==
  /\ agent[p].pc = "await_llm"
  /\ \E error \in ModelErrors :
       agent' = [agent EXCEPT ![p] = DirectCaught(@, error)]
  /\ UNCHANGED <<retry, tool, saved, storeVars, failing>>

\* the direct variant over the stores, with a search that works or throws
InitDirect ==
  /\ InitProcs
  /\ saved = [t \in Threads |-> <<>>]
  /\ collection \in SUBSET DirectItems
  /\ vectorHits \in
       {[i \in DOMAIN s |-> <<s[i], 90>>] : s \in Perms(collection)}
  /\ textHits = <<>>
  /\ failing \in {{}, {"similaritySearch"}}

NextDirect ==
  \/ DirectCallAgent(1)
  \/ SearchThrows(1)
  \/ SearchReturns(1)
  \/ LlmResolves(1)
  \/ LlmRejects(1)

SpecDirect == InitDirect /\ [][NextDirect]_vars

(***************************************************************************)
(* The Backoff Executor's claims, under SpecRetry.                         *)
(***************************************************************************)
RateLimited(entry) == entry.tag = "error" /\ entry.error.status = 429

AllRateLimited(r) == \A i \in DOMAIN r.log : RateLimited(r.log[i])

\* the executor has ended by throwing, every call of the operation having
\* failed with the rate-limit signal
ExhaustedByRateLimit(r) ==
  r.pc = "thrown" /\ r.maxRetries >= 1 /\ r.log # <<>> /\ AllRateLimited(r)

\* C1 as stated: for maxRetries >= 1 and an operation that fails with status
\* 429 on every call, the executor calls it exactly maxRetries times and then
\* fails with the "Max retries exceeded" error.
C1_MaxRetriesExceeded ==
  ExhaustedByRateLimit(retry[1]) =>
    /\ retry[1].calls = retry[1].maxRetries
    /\ retry[1].out.error = MaxRetriesError

\* C1 amended: for maxRetries >= 1 and an operation that fails with status 429
\* on every call, the executor calls it exactly maxRetries times (never more
\* on the way) and then fails with the rate-limit error of the last call
\* itself; with maxRetries >= 1 it never fails with "Max retries exceeded".
C1_RateLimitPropagates ==
  /\ AllRateLimited(retry[1]) => retry[1].calls <= retry[1].maxRetries
  /\ ExhaustedByRateLimit(retry[1]) =>
       /\ retry[1].calls = retry[1].maxRetries
       /\ Len(retry[1].log) = retry[1].maxRetries
       /\ retry[1].out = [tag |-> "error", error |-> Err(429, "Too Many Requests")]
  /\ (retry[1].pc = "thrown" /\ retry[1].maxRetries >= 1) =>
       retry[1].out.error # MaxRetriesError

C1_Witness ==
  /\ ExhaustedByRateLimit(retry[1])
  /\ retry[1].maxRetries = 3
  /\ retry[1].calls = 3

\* C2: when a call of the operation fails with a status other than 429, on
\* whichever attempt, that call is the last one, no wait follows it (the waits
\* are those after the earlier rate limits), and the executor has thrown that
\* same error; a first-attempt failure of this kind means exactly one call.
C2_OtherErrorsNotRetried ==
  \A i \in DOMAIN retry[1].log :
    (retry[1].log[i].tag = "error" /\ retry[1].log[i].error.status # 429) =>
      /\ i = Len(retry[1].log)
      /\ retry[1].calls = i
      /\ Len(retry[1].waits) = i - 1
      /\ retry[1].pc = "thrown"
      /\ retry[1].out = [tag |-> "error", error |-> retry[1].log[i].error]

C2_Witness ==
  /\ retry[1].pc = "thrown"
  /\ retry[1].maxRetries = 3
  /\ retry[1].calls = 1
  /\ retry[1].out.error.status = 401

\* C3: when the operation fails with status 429 k times (k < maxRetries) and
\* then succeeds, the executor returns that success value after exactly k + 1
\* calls and exactly k waits, the i-th wait being min(1000 * 2^i, 30000) ms;
\* with maxRetries = 3 and k = 2 the waits are 2000 then 4000; no wait is ever
\* longer than 30000 ms.
C3_BackoffThenSuccess ==
  /\ \A i \in DOMAIN retry[1].waits : retry[1].waits[i] <= 30000
  /\ retry[1].pc = "returned" =>
       LET k == Len(retry[1].log) - 1 IN
       /\ k < retry[1].maxRetries
       /\ \A i \in 1..k : RateLimited(retry[1].log[i])
       /\ retry[1].log[k + 1].tag = "value"
       /\ retry[1].out = retry[1].log[k + 1]
       /\ retry[1].calls = k + 1
       /\ Len(retry[1].waits) = k
       /\ \A i \in 1..k :
            retry[1].waits[i] = IF 1000 * 2^i < 30000 THEN 1000 * 2^i ELSE 30000
       /\ (retry[1].maxRetries = 3 /\ k = 2) => retry[1].waits = <<2000, 4000>>

C3_Witness ==
  /\ retry[1].pc = "returned"
  /\ retry[1].maxRetries = 3
  /\ retry[1].calls = 3
  /\ Len(retry[1].waits) = 2

\* C18: the executor fails with "Max retries exceeded" exactly when it was
\* called with maxRetries < 1; the operation has then never been called, no
\* error of it was caught and no wait made; with maxRetries < 1 the executor
\* does nothing else than fail so, and with maxRetries >= 1 what it throws is
\* always an error caught from the operation.
C18_MaxRetriesExceededOnlyWithoutAttempt ==
  LET r == retry[1] IN
  /\ r.pc = "thrown" =>
       /\ r.out.tag = "error"
       /\ r.out.error = MaxRetriesError <=> r.maxRetries < 1
       /\ r.out.error.message = "Max retries exceeded" <=> r.calls = 0
       /\ r.maxRetries >= 1 =>
            /\ r.log # <<>>
            /\ r.log[Len(r.log)] = r.out
  /\ (r.pc # "idle" /\ r.maxRetries < 1) =>
       /\ r.pc \in {"for", "thrown"}
       /\ r.calls = 0 /\ r.log = <<>> /\ r.waits = <<>>

C18_Witness ==
  /\ retry[1].pc = "thrown"
  /\ retry[1].maxRetries = 0
  /\ retry[1].calls = 0
  /\ retry[1].out = [tag |-> "error", error |-> MaxRetriesError]

(***************************************************************************)
(* The Hybrid Retriever's claims, under SpecTool.                          *)
(***************************************************************************)
\* the call of the tool has returned
Done(t) == t.pc = "done" /\ t.out.tag = "value"

\* the envelope a finished call returned
Envelope(t) == t.out.value

HasCalled(t, op) == \E k \in DOMAIN t.calls : t.calls[k] = op

\* C4: for every query, when the collection has zero documents (and the count
\* says so) the retriever returns the envelope with count = 0 and the
\* empty-inventory error indicator, having caught no exception; with an empty
\* collection neither the semantic nor the lexical search is ever invoked.
C4_EmptyInventory ==
  \A i \in DOMAIN tool[1] :
    collection = {} =>
      /\ ~HasCalled(tool[1][i], "similaritySearchWithScore")
      /\ ~HasCalled(tool[1][i], "find")
      /\ (Done(tool[1][i]) /\ "countDocuments" \notin failing) =>
           /\ ~tool[1][i].threw
           /\ tool[1][i].calls = <<"countDocuments">>
           /\ DOMAIN Envelope(tool[1][i]) = {"error", "message", "count"}
           /\ Envelope(tool[1][i]).count = 0
           /\ Envelope(tool[1][i]).error = "No items found in inventory"

C4_Witness ==
  /\ collection = {}
  /\ tool[1] # <<>>
  /\ Done(tool[1][1])
  /\ tool[1][1].input = "{\"query\":\"sofa\",\"n\":2}"
  /\ Envelope(tool[1][1]).count = 0

\* C5: for every non-empty collection and every query, when the semantic
\* search finds at least one result the envelope has searchType "vector", its
\* results are exactly what the semantic search returned and the lexical search
\* was not run; when it finds none and the lexical search returns, the envelope
\* has searchType "text" and its results are exactly what the lexical search
\* returned.
C5_SearchTypeByPath ==
  \A i \in DOMAIN tool[1] :
    (Done(tool[1][i]) /\ collection # {} /\ ~tool[1][i].threw) =>
      LET semantic == Take(vectorHits, tool[1][i].n)
          lexical == Take(textHits, tool[1][i].n)
          envelope == Envelope(tool[1][i])
      IN /\ Len(semantic) >= 1 =>
              /\ envelope.searchType = "vector"
              /\ envelope.results = semantic
              /\ ~HasCalled(tool[1][i], "find")
         /\ Len(semantic) = 0 =>
              /\ envelope.searchType = "text"
              /\ envelope.results = lexical
              /\ HasCalled(tool[1][i], "find")

C5_Witness ==
  /\ tool[1] # <<>>
  /\ Done(tool[1][1])
  /\ vectorHits = <<>>
  /\ "searchType" \in DOMAIN Envelope(tool[1][1])
  /\ Envelope(tool[1][1]).searchType = "text"
  /\ Len(Envelope(tool[1][1]).results) = 2

\* the results of an envelope, none when it has no results field
ResultsOf(envelope) ==
  IF "results" \in DOMAIN envelope THEN envelope.results ELSE <<>>

\* C6 as stated: every envelope the retriever returns, on every path (vector,
\* text, empty inventory, search failure), carries a count equal to the
\* length of its results.
C6_CountOnEveryPath ==
  \A i \in DOMAIN tool[1] :
    Done(tool[1][i]) =>
      /\ "count" \in DOMAIN Envelope(tool[1][i])
      /\ Envelope(tool[1][i]).count = Len(ResultsOf(Envelope(tool[1][i])))

\* C6 amended: every success envelope (vector or text) carries a count equal
\* to the length of its results; the empty-inventory envelope carries count 0
\* and no results; the search-failure envelope {error, details, query} carries
\* neither a count nor results.
C6_CountOnSuccessPaths ==
  \A i \in DOMAIN tool[1] :
    Done(tool[1][i]) =>
      LET envelope == Envelope(tool[1][i]) IN
      IF tool[1][i].threw
        THEN DOMAIN envelope = {"error", "details", "query"}
      ELSE IF collection = {}
        THEN DOMAIN envelope = {"error", "message", "count"} /\ envelope.count = 0
      ELSE /\ DOMAIN envelope = {"results", "searchType", "query", "count"}
           /\ envelope.count = Len(envelope.results)

C6_Witness ==
  /\ tool[1] # <<>>
  /\ Done(tool[1][1])
  /\ tool[1][1].n = 1
  /\ Len(vectorHits) = 2
  /\ "searchType" \in DOMAIN Envelope(tool[1][1])
  /\ Envelope(tool[1][1]).searchType = "vector"
  /\ Envelope(tool[1][1]).count = 1

\* the parsed input has the expected shape {query, n?}
HasShape(r) ==
  r.ok /\ r.value.t = "object" /\ "query" \in DOMAIN r.value.fields

\* the parsing step has let no error out: a call that waits for the count has
\* caught nothing, and what a call caught is an error of the store
ParsingPropagatesNothing(t) ==
  /\ t.calls # <<>> /\ t.calls[1] = "countDocuments"
  /\ t.pc = "await_count" => (~t.threw /\ t.out.tag = "none")
  /\ t.threw => (Done(t) /\ Envelope(t).details # "")

\* C11 as stated: an input that does not parse as JSON gives query = the raw
\* input and count 10; an input that parses to the shape {query, n?} gives
\* query = its query field and count = its n, or 10 when n is absent; the
\* parsing step lets no error out.
C11_ParsedAsGiven ==
  \A i \in DOMAIN tool[1] :
    LET t == tool[1][i]
        r == JSONparse(t.input)
    IN /\ ~r.ok => (t.query = t.input /\ t.n = 10)
       /\ HasShape(r) =>
            /\ t.query = r.value.fields.query.v
            /\ t.n = IF "n" \in DOMAIN r.value.fields
                       THEN r.value.fields.n.v ELSE 10
       /\ ParsingPropagatesNothing(t)

\* C11 amended: an input that does not parse as JSON, or parses to a value
\* without a query field, gives query = the raw input; an input that parses to
\* the shape {query, n?} gives query = its query field unless that is the
\* empty string (then the raw input), and count = its n unless n is absent or
\* 0 (then 10); without a usable n the count is 10; the parsing step lets no
\* error out.
C11_ParsedOrDefaulted ==
  \A i \in DOMAIN tool[1] :
    LET t == tool[1][i]
        r == JSONparse(t.input)
    IN /\ ~r.ok => (t.query = t.input /\ t.n = 10)
       /\ (r.ok /\ ~HasShape(r)) => t.query = t.input
       /\ (r.ok /\ r.value.t # "object") => t.n = 10
       /\ HasShape(r) =>
            /\ t.query = IF r.value.fields.query.v # ""
                           THEN r.value.fields.query.v ELSE t.input
            /\ t.n = IF "n" \in DOMAIN r.value.fields /\ r.value.fields.n.v # 0
                       THEN r.value.fields.n.v ELSE 10
       /\ ParsingPropagatesNothing(t)

C11_Witness ==
  /\ tool[1] # <<>>
  /\ Done(tool[1][1])
  /\ tool[1][1].input = "{\"query\":\"sofa\",\"n\":0}"
  /\ tool[1][1].query = "sofa"
  /\ tool[1][1].n = 10

\* C19: the lexical search (find) is called only after the semantic search
\* has returned, with no result; when the semantic search throws, the lexical
\* search is not called and the call ends with the envelope {error: "Failed to
\* search inventory", details, query}, its query being the raw input string
\* of the tool, not the query parsed from it.
C19_FallbackOnlyOnEmptyResult ==
  \A i \in DOMAIN tool[1] :
    LET t == tool[1][i] IN
    /\ HasCalled(t, "find") =>
         /\ t.calls = <<"countDocuments", "similaritySearchWithScore", "find">>
         /\ "similaritySearchWithScore" \notin failing
         /\ t.n >= 1
         /\ t.result = <<>>
         /\ Take(vectorHits, t.n) = <<>>
    /\ (HasCalled(t, "similaritySearchWithScore") /\
          ("similaritySearchWithScore" \in failing \/ t.n < 1)) =>
         /\ ~HasCalled(t, "find")
         /\ t.pc \in {"await_vector", "done"}
         /\ t.pc = "done" =>
              /\ t.threw
              /\ t.out.tag = "value"
              /\ DOMAIN Envelope(t) = {"error", "details", "query"}
              /\ Envelope(t).error = "Failed to search inventory"
              /\ Envelope(t).query = t.input

C19_Witness ==
  /\ tool[1] # <<>>
  /\ Done(tool[1][1])
  /\ failing = {"similaritySearchWithScore"}
  /\ tool[1][1].calls = <<"countDocuments", "similaritySearchWithScore">>
  /\ tool[1][1].input = "{\"query\":\"sofa\",\"n\":1}"
  /\ tool[1][1].query = "sofa"
  /\ Envelope(tool[1][1]).query = "{\"query\":\"sofa\",\"n\":1}"

\* C20 as stated: for every tool input string the count handed to the
\* semantic search and to the lexical search is an integer of 1 or more (10
\* when n is absent or zero, or the input is not JSON), and a success envelope
\* never has more results than that count.
C20_CountAtLeastOne ==
  \A i \in DOMAIN tool[1] :
    LET t == tool[1][i]
        r == JSONparse(t.input)
    IN /\ HasCalled(t, "similaritySearchWithScore") => t.n >= 1
       /\ HasCalled(t, "find") => t.n >= 1
       /\ (~r.ok \/ ~Truthy(Get(r.value, "n"))) => t.n = 10
       /\ (Done(t) /\ "results" \in DOMAIN Envelope(t)) =>
            Len(Envelope(t).results) <= t.n

(***************************************************************************)
(* The control loop's claims, under Spec.                                  *)
(***************************************************************************)
\* the tool messages the tools node appends for the finished calls ts, in the
\* order of the calls
ToolMessagesOf(calls, ts) ==
  [i \in DOMAIN ts |-> ToolMessage(calls[i].id, JSONstringify(ts[i].out.value))]

\* the last message of the history is the error envelope of a failed search
LastIsErrorEnvelope(messages) ==
  /\ messages # <<>>
  /\ Last(messages).role = "tool"
  /\ DOMAIN Last(messages).content.json = {"error", "details", "query"}

C7_Step ==
  /\ \A i \in DOMAIN tool'[1] :
       tool'[1][i].pc = "done" =>
         /\ tool'[1][i].out.tag = "value"
         /\ tool'[1][i].threw =>
              tool'[1][i].out.value =
                [error |-> "Failed to search inventory",
                 details |-> "connection closed",
                 query |-> tool'[1][i].input]
  /\ agent'[1].pc = "thrown" =>
       agent'[1].caught.error \in ModelErrors \cup {GraphRecursionError}
  /\ (agent[1].pc = "tools" /\ agent'[1].pc # "tools") =>
       /\ agent'[1].pc = "to_agent"
       /\ agent'[1].messages =
            agent[1].messages \o
              ToolMessagesOf(Last(agent[1].messages).tool_calls, tool[1])
       /\ (\E i \in DOMAIN tool[1] : tool[1][i].threw) =>
            \E k \in DOMAIN agent'[1].messages :
              /\ k > Len(agent[1].messages)
              /\ DOMAIN agent'[1].messages[k].content.json =
                   {"error", "details", "query"}
  /\ (agent[1].pc = "to_agent" /\ agent'[1] # agent[1]) =>
       agent'[1].pc = "agent"

\* C7: the retriever never throws to its caller: an exception of the document
\* count, the semantic search or the lexical search ends the call with the
\* envelope {error, details, query} as its normal result; no such exception
\* aborts the control loop: the tools node then ends with the envelope
\* appended to the history as a tool message, and the loop goes on to the
\* agent node (REASON).
C7_RetrievalFailureRecovered == [][C7_Step]_vars

C7_Witness ==
  /\ agent[1].pc = "agent"
  /\ failing = {"find"}
  /\ LastIsErrorEnvelope(agent[1].messages)
  /\ Last(agent[1].messages).content.json.error = "Failed to search inventory"

\* C8: one invocation never takes more than 15 steps (agent and tools nodes
\* together, so never more than 15 REASON/ACT round trips), whatever the model
\* answers; the tools never start once the 15 are used; an invocation stopped
\* by the ceiling fails with an error to the caller, and what an invocation
\* returns is always the content of a final model message with no tool call.
C8_StepCeiling ==
  /\ agent[1].step <= 15
  /\ agent[1].pc = "tools" => agent[1].step < 15
  /\ agent[1].pc = "returned" =>
       /\ agent[1].out.tag = "value"
       /\ agent[1].caught.tag = "none"
       /\ Last(agent[1].messages).role = "ai"
       /\ Last(agent[1].messages).tool_calls = <<>>
       /\ agent[1].out.value = Last(agent[1].messages).content
  /\ (agent[1].pc = "to_tools" /\ agent[1].step >= 15) =>
       agent[1].out.tag = "none"
  /\ (agent[1].pc = "thrown" /\ agent[1].caught.error = GraphRecursionError) =>
       /\ agent[1].step = 15
       /\ agent[1].out.tag = "error"
       /\ agent[1].out.error.message =
            "Agent failed: Recursion limit of 15 reached without hitting a stop condition."

C8_Witness ==
  /\ agent[1].pc = "thrown"
  /\ agent[1].caught.error = GraphRecursionError
  /\ agent[1].step = 15
  /\ ToolCallsLength(Last(agent[1].messages)) >= 1

\* C9: an invocation has failed exactly when an error was caught, and the
\* error the caller gets is a new one with no status whose message follows
\* from the status of the caught error: the rate-limit message for 429, the
\* authentication message for 401, "Agent failed: " and the caught message
\* otherwise; the three are different messages and the caught error itself is
\* never the one thrown.
C9_Classified ==
  /\ agent[1].pc = "thrown" <=> agent[1].caught.tag = "error"
  /\ agent[1].pc = "thrown" =>
       LET caught == agent[1].caught.error
           thrown == agent[1].out.error
       IN /\ agent[1].out.tag = "error"
          /\ thrown.status = NoStatus
          /\ thrown # caught
          /\ thrown.message =
               IF caught.status = 429
                 THEN "Service temporarily unavailable due to rate limits. Please try again in a minute."
               ELSE IF caught.status = 401
                 THEN "Authentication failed. Please check your API configuration."
               ELSE "Agent failed: " \o caught.message
          /\ thrown.message = RateLimitMessage <=> caught.status = 429
          /\ thrown.message = AuthMessage <=> caught.status = 401

C9_Witness ==
  /\ agent[1].pc = "thrown"
  /\ agent[1].caught.error.status = 401
  /\ agent[1].step = 3

C10_Step ==
  /\ retry'[1].pc \in {"for", "await_fn", "await_timer"} =>
       agent'[1].pc = "agent" /\ agent'[1].out.tag = "none"
  /\ (retry'[1].pc = "thrown" /\ AllRateLimited(retry'[1])) =>
       /\ retry'[1].calls = 3
       /\ Len(retry'[1].log) = 3
       /\ agent'[1].pc \in {"agent", "thrown"}
       /\ agent'[1].pc = "thrown" =>
            /\ agent'[1].caught.error.status = 429
            /\ agent'[1].out.error.message # AuthMessage
            /\ agent'[1].out.error.message # "Agent failed: Too Many Requests"
            /\ agent'[1].out.error.message =
                 "Service temporarily unavailable due to rate limits. Please try again in a minute."
  /\ (retry[1].pc = "thrown" /\ agent[1].pc = "agent") =>
       agent'[1].pc = "thrown"
  /\ (agent'[1].pc = "thrown" /\ agent'[1].caught.error.status = 429) =>
       /\ retry'[1].calls = 3
       /\ AllRateLimited(retry'[1])
       /\ agent'[1].out.error.message =
            "Service temporarily unavailable due to rate limits. Please try again in a minute."

\* C10: while a Reasoning Step still has attempts left, a rate-limit failure
\* of the model leaves the invocation running with nothing given to the
\* caller; when every attempt of one step is rate-limited the model has been
\* called exactly 3 times for that step, the next thing the loop does is
\* abort, and the caller gets the rate-limit message.
C10_RateLimitEndToEnd == [][C10_Step]_vars

C10_Witness ==
  /\ agent[1].pc = "thrown"
  /\ agent[1].caught.error.status = 429
  /\ agent[1].step = 3
  /\ retry[1].calls = 3

(***************************************************************************)
(* The control loop's transitions, under Spec.  REASON is the agent node   *)
(* (pc to_agent, agent), ACT the tools node (pc tools), DONE the return;   *)
(* to_tools and to_end are the two outcomes of the conditional edge.       *)
(***************************************************************************)
\* the loop starts in REASON, the human message appended to the history
StartsInReason(a, b) ==
  (a.pc = "idle" /\ b.pc # "idle") =>
    /\ b.pc = "to_agent"
    /\ b.step = 0
    /\ b.messages = saved[b.thread_id] \o <<HumanMessage(b.query)>>

\* a Reasoning Step that produces a message takes the edge its tool calls say
EdgeByToolCalls(a, b) ==
  (a.pc = "agent" /\ b.pc \in {"to_tools", "to_end"}) =>
    /\ Len(b.messages) = Len(a.messages) + 1
    /\ Last(b.messages).role = "ai"
    /\ b.pc = "to_tools" <=> Len(Last(b.messages).tool_calls) >= 1
    /\ b.pc = "to_end" <=> Len(Last(b.messages).tool_calls) = 0

\* ACT goes back to REASON, and DONE returns the last message's content
ActAndDone(a, b) ==
  /\ (a.pc = "to_agent" /\ b # a) => b.pc = "agent"
  /\ (a.pc = "tools" /\ b.pc # "tools") => b.pc = "to_agent"
  /\ b.pc = "returned" =>
       /\ a.pc \in {"to_end", "returned"}
       /\ Last(b.messages).role = "ai"
       /\ Last(b.messages).tool_calls = <<>>
       /\ b.out = [tag |-> "value", value |-> Last(b.messages).content]
  /\ a.pc \in {"returned", "thrown"} => b = a

C13_StatedStep ==
  LET a == agent[1]
      b == agent'[1]
  IN /\ StartsInReason(a, b)
     /\ EdgeByToolCalls(a, b)
     /\ ActAndDone(a, b)
     /\ (a.pc = "to_tools" /\ b # a) => b.pc = "tools"
     /\ (a.pc = "to_end" /\ b # a) => b.pc = "returned"

\* C13 as stated: the loop starts in REASON with the human message appended;
\* a message with tool calls always takes the loop from REASON to ACT and one
\* without always to DONE; ACT always goes back to REASON; DONE returns the
\* content of the last, tool-call-free model message.
C13_LoopTransitions == [][C13_StatedStep]_vars

C13_AmendedStep ==
  LET a == agent[1]
      b == agent'[1]
  IN /\ StartsInReason(a, b)
     /\ EdgeByToolCalls(a, b)
     /\ ActAndDone(a, b)
     /\ (a.pc = "agent" /\ b.pc # "agent") =>
          \/ b.pc \in {"to_tools", "to_end"}
          \/ /\ b.pc = "thrown"
             /\ b.messages = a.messages
             /\ b.caught.error \in ModelErrors
     /\ (a.pc = "to_tools" /\ b # a) =>
          IF a.step < 15 THEN b.pc = "tools" /\ tool'[1] # <<>>
          ELSE b.pc = "thrown" /\ b.caught.error = GraphRecursionError
     /\ (a.pc = "to_end" /\ b # a) =>
          \/ b.pc = "returned"
          \/ a.step >= 15 /\ b.pc = "thrown" /\ b.caught.error = GraphRecursionError
     /\ b.pc = "tools" => a.pc \in {"to_tools", "tools"}

\* C13 amended: the loop starts in REASON with the human message appended; a
\* Reasoning Step that fails produces no message and aborts the loop; a
\* message with tool calls takes the loop from REASON to ACT when fewer than
\* 15 steps are used, and with 15 used the invocation fails with the step
\* ceiling's error; a message without tool calls takes it to DONE (or, with 15
\* steps used, possibly to the same failure); ACT is entered in no other way
\* and always goes back to REASON; DONE returns the content of the last,
\* tool-call-free model message.
C13_LoopTransitionsBelowCeiling == [][C13_AmendedStep]_vars

C13_Witness ==
  /\ agent[1].pc = "returned"
  /\ agent[1].step = 3
  /\ Len(agent[1].messages) = 4
  /\ agent[1].messages[2].tool_calls # <<>>
  /\ agent[1].messages[3].role = "tool"
  /\ agent[1].out.value = "We have a blue sofa."

\* the invocation has given its caller a string, or a classified error
Ended(a) ==
  \/ a.pc = "returned" /\ a.out.tag = "value" /\ a.out.value \in Answers
  \/ /\ a.pc = "thrown" /\ a.out.tag = "error"
     /\ a.out.error = Classify(a.caught.error)

\* C14: when every model call, tool call and backoff wait completes in the
\* end, an invocation that has been called always comes to its end, a string
\* returned or a classified error thrown, whatever the model answers (tool
\* calls in every response included); under SpecFair.
C14_Terminates == (agent[1].pc # "idle") ~> Ended(agent[1])

C14_Witness ==
  /\ Ended(agent[1])
  /\ agent[1].caught.tag = "error"
  /\ agent[1].caught.error = GraphRecursionError
  /\ Len(agent[1].messages) >= 16
  /\ \A k \in 1..7 : Len(agent[1].messages[2 * k].tool_calls) = 1

C15_Step ==
  LET a == agent[1]
      b == agent'[1]
      r == retry[1]
  IN a.pc = "agent" =>
       /\ b.pc \in {"agent", "to_tools", "to_end", "thrown"}
       /\ b.pc \in {"agent", "thrown"} =>
            /\ b.messages = a.messages
            /\ saved' = saved
       /\ b.pc = "thrown" =>
            /\ r.pc = "thrown"
            /\ r.log # <<>>
            /\ \A k \in DOMAIN r.log : r.log[k].tag = "error"
       /\ b.pc \in {"to_tools", "to_end"} =>
            /\ r.pc = "returned"
            /\ Len(r.log) \in 1..3
            /\ \A k \in 1..(Len(r.log) - 1) : RateLimited(r.log[k])
            /\ r.out.value.messages \in [1..1 -> ModelResponses]
            /\ b.messages = a.messages \o <<r.out.value.messages[1]>>
            /\ Len(b.messages) = Len(a.messages) + 1
            /\ saved'[a.thread_id] = b.messages

\* C15: while a Reasoning Step runs, its attempts (calls of the model, rate
\* limits, waits) leave the history and what is persisted unchanged; a step
\* that succeeds, after 0, 1 or 2 rate-limited attempts, appends exactly one
\* message, the model's response; a step that fails, its attempts exhausted
\* or on another error, leaves the history as it was when the step began.
C15_OneMessagePerStep == [][C15_Step]_vars

C15_Witness ==
  /\ agent[1].pc = "thrown"
  /\ agent[1].step = 3
  /\ retry[1].calls = 3
  /\ AllRateLimited(retry[1])
  /\ Len(agent[1].messages) = 3
  /\ agent[1].messages[3].role = "tool"
  /\ saved[agent[1].thread_id] = agent[1].messages

(***************************************************************************)
(* The tools node with several calls, under SpecCalls.                     *)
(***************************************************************************)
C16_Step ==
  LET a == agent[1]
      b == agent'[1]
      calls == Last(a.messages).tool_calls
      m == Len(calls)
  IN /\ (a.pc = "to_tools" /\ b.pc = "tools") =>
          /\ m >= 1
          /\ tool'[1] = [i \in 1..m |-> ToolEntered(calls[i].input)]
     /\ a.pc = "tools" =>
          /\ Len(tool[1]) = m
          /\ (\E i \in 1..m : tool[1][i].pc # "done") =>
               /\ b.pc = "tools"
               /\ b.messages = a.messages
               /\ Len(tool'[1]) = m
          /\ b.pc # "tools" =>
               /\ b.pc = "to_agent"
               /\ \A i \in 1..m : Done(tool[1][i])
               /\ Len(b.messages) = Len(a.messages) + m
               /\ SubSeq(b.messages, 1, Len(a.messages)) = a.messages
               /\ \A i \in 1..m :
                    b.messages[Len(a.messages) + i] =
                      [role |-> "tool", tool_call_id |-> calls[i].id,
                       content |-> JSONstringify(tool[1][i].out.value)]

\* C16: the tools node starts one call of the tool for each of the m tool
\* calls c1..cm of the last message; while any of them is unfinished, in
\* whatever order they run and finish, the loop stays in ACT and the history
\* is unchanged; the node ends only with all m finished, and then exactly m
\* tool messages are appended, the i-th being the result of ci, and the loop
\* goes back to REASON.
C16_ToolResultsInRequestOrder == [][C16_Step]_vars

C16_Witness ==
  /\ agent[1].pc = "to_agent"
  /\ Len(agent[1].messages) = 4
  /\ Len(agent[1].messages[2].tool_calls) = 2
  /\ agent[1].messages[2].tool_calls[1].input = "table"
  /\ agent[1].messages[2].tool_calls[2].input = "sofa"
  /\ agent[1].messages[3].role = "tool" /\ agent[1].messages[3].tool_call_id = 1
  /\ agent[1].messages[4].role = "tool" /\ agent[1].messages[4].tool_call_id = 2
  /\ collection # {} /\ failing = {}
  /\ agent[1].messages[3].content.json.query = "table"
  /\ agent[1].messages[4].content.json.query = "sofa"

(***************************************************************************)
(* The claims on the conversation history, under SpecThreads.              *)
(***************************************************************************)
IsPrefix(s, t) == Len(s) <= Len(t) /\ SubSeq(t, 1, Len(s)) = s

\* invocation p is between its call and its end
Running(a) == a.pc \notin {"idle", "returned", "thrown"}

C12_Step ==
  /\ \A t \in Threads : IsPrefix(saved[t], saved'[t])
  /\ \A p \in Procs :
       /\ (agent[p].pc = "idle" /\ agent'[p].pc # "idle") =>
            /\ agent'[p].messages =
                 saved[agent'[p].thread_id] \o <<HumanMessage(agent'[p].query)>>
            /\ saved'[agent'[p].thread_id] = agent'[p].messages
       /\ agent[p].pc # "idle" =>
            /\ agent'[p].thread_id = agent[p].thread_id
            /\ IsPrefix(agent[p].messages, agent'[p].messages)
            /\ IsPrefix(agent'[p].messages, saved'[agent[p].thread_id])
       /\ Running(agent'[p]) =>
            saved'[agent'[p].thread_id] = agent'[p].messages

\* C12: over the invocations on one thread, issued one at a time, the history
\* an invocation starts from is the history the previous ones persisted (with
\* its own human message appended), every update of the state and of the
\* persisted history extends what was there, so that the history before any
\* step is a prefix of the history after it, and what is persisted for the
\* thread is the state of the invocation running on it.
C12_AppendOnlyHistory == [][C12_Step]_vars

C12_Witness ==
  /\ agent[1].pc = "returned" /\ agent[2].pc = "returned"
  /\ agent[1].thread_id = "t1" /\ agent[2].thread_id = "t1"
  /\ Len(agent[1].messages) = 4
  /\ Len(agent[2].messages) = 8
  /\ IsPrefix(agent[1].messages, agent[2].messages)
  /\ saved["t1"] = agent[2].messages

\* what invocation p holds: its state, its executor, its tool calls
Local(p) == <<agent[p], retry[p], tool[p]>>

\* the human messages of a history
HumanMessagesOf(messages) ==
  SelectSeq(messages, LAMBDA m : m.role = "human")

C17_Step ==
  /\ \A p, q \in Procs :
       (p # q /\ Local(p)' # Local(p)) =>
         /\ Local(q)' = Local(q)
         /\ \A t \in Threads \ {agent'[p].thread_id} : saved'[t] = saved[t]
         /\ storeVars' = storeVars
  /\ \A t \in Threads :
       \/ saved'[t] = <<>> /\ \A p \in Procs : agent'[p].thread_id # t
       \/ \E p \in Procs : agent'[p].thread_id = t /\ saved'[t] = agent'[p].messages
  /\ \A p, q \in Procs :
       (p # q /\ agent'[p].pc # "idle" /\ agent'[q].thread_id # agent'[p].thread_id) =>
         /\ HumanMessagesOf(agent'[p].messages) = <<HumanMessage(agent'[p].query)>>
         /\ agent'[p].messages[1] = HumanMessage(agent'[p].query)
         /\ Running(agent'[p]) => saved'[agent'[p].thread_id] = agent'[p].messages
         /\ agent'[p].pc = "returned" =>
              /\ saved'[agent'[p].thread_id] = agent'[p].messages
              /\ agent'[p].out.value = Last(agent'[p].messages).content
              /\ Len(agent'[p].messages) >= agent'[p].step + 1

\* C17: of two invocations on different threads, interleaved in any way, a
\* step of one changes neither the state of the other nor the history of the
\* other's thread (nor the store); the history of a thread is always the
\* state of an invocation on that thread, so it holds that invocation's human
\* message and what followed from it, and nothing of the other; what an
\* invocation returns is the content of the last message of its own run, as
\* when it runs alone.
C17_ThreadIsolation == [][C17_Step]_vars

C17_Witness ==
  /\ agent[1].thread_id = "t1" /\ agent[2].thread_id = "t2"
  /\ agent[1].query # agent[2].query
  /\ agent[1].pc = "tools" /\ agent[2].pc = "to_end"
  /\ tool[1][1].pc = "await_vector"
  /\ Len(saved["t1"]) = 2 /\ Len(saved["t2"]) = 4
  /\ saved["t1"][1] = HumanMessage(agent[1].query)
  /\ saved["t2"][1] = HumanMessage(agent[2].query)

(***************************************************************************)
(* The direct-answer variant's claim, under SpecDirect.                    *)
(***************************************************************************)
\* how often the invocation a has invoked op
TimesCalled(a, op) == Cardinality({k \in DOMAIN a.calls : a.calls[k] = op})

\* C21: the direct-answer callAgent never throws to its caller: it ends only
\* by returning a string; it invokes the similarity search once, with k = 3,
\* and then llm.invoke at most once (no second call after a failure, a rate
\* limit included, and nothing else is invoked); llm.invoke is called only
\* when the search has returned; when the search or llm.invoke fails, as
\* whenever anything was caught, what is returned is the fixed apology, and
\* otherwise it is the content of the model's response.
C21_DirectAnswerNeverThrows ==
  LET a == agent[1] IN
  /\ a.pc \in {"idle", "await_search", "await_llm", "returned"}
  /\ a.pc # "idle" =>
       /\ a.out.tag \in {"none", "value"}
       /\ a.k = 3
       /\ Len(a.searchResults) <= 3
       /\ a.calls \in {<<"similaritySearch">>, <<"similaritySearch", "llm.invoke">>}
       /\ TimesCalled(a, "similaritySearch") = 1
       /\ TimesCalled(a, "llm.invoke") <= 1
       /\ TimesCalled(a, "llm.invoke") = 1 =>
            /\ "similaritySearch" \notin failing
            /\ Len(a.searchResults) = Min(3, Len(vectorHits))
            /\ a.caught.tag = "error" => a.caught.error \in ModelErrors
       /\ a.pc = "returned" =>
            /\ a.out.tag = "value"
            /\ "similaritySearch" \in failing =>
                 /\ a.calls = <<"similaritySearch">>
                 /\ a.out.value = Apology
            /\ a.caught.tag = "error" => a.out.value = Apology
            /\ a.caught.tag = "none" =>
                 /\ TimesCalled(a, "llm.invoke") = 1
                 /\ a.out.value \in Answers

C21_Witness ==
  /\ agent[1].pc = "returned"
  /\ agent[1].calls = <<"similaritySearch", "llm.invoke">>
  /\ Len(vectorHits) = 4
  /\ Len(agent[1].searchResults) = 3
  /\ agent[1].caught.tag = "error"
  /\ agent[1].caught.error.status = 429
  /\ agent[1].out = [tag |-> "value", value |-> Apology]

====
